---- MODULE Spec2Model ----
(***************************************************************************)
(* Model of services/app.py: a FastAPI application with two routes,        *)
(* GET /health and POST /embed, layered over one SentenceTransformer       *)
(* handle that is loaded when the module is imported.                      *)
(*                                                                         *)
(* The HTTP framework serves requests from a worker pool (both handlers    *)
(* are plain `def`), so several handlers may be in flight at once.  Each   *)
(* slot of the pool is modelled with its own position (pc) and locals.     *)
(* The embed handler is split at the one place where it leaves the         *)
(* adapter's code: the call to model.encode.                               *)
(***************************************************************************)
EXTENDS Integers, Sequences, FiniteSets, TLC

\* ---- bounds of the model ------------------------------------------------
NumSlots == 2       \* handlers that can be in flight at the same time
MaxRequests == 3    \* requests received over one behaviour
MaxLen == 2         \* longest `texts` list of a request
Dim == 2            \* embedding dimensionality of the loaded model

Slots == 1..NumSlots

VARIABLES
    MODEL_NAME,   \* module global, app.py:11
    model,        \* module global, app.py:12 (the handle)
    pc,           \* per slot: position of the request being served
    req,          \* per slot: the HTTP request as received
    payload,      \* per slot: embed's parameter `payload.texts`
    resp,         \* per slot: the HTTP response produced
    calls,        \* per slot: arguments of the model.encode calls made
    raised,       \* per slot: the model call of this request raised
    history       \* outcomes of the requests already answered, in order

vars == <<MODEL_NAME, model, pc, req, payload, resp, calls,
          raised, history>>

\* ---- JSON request bodies -------------------------------------------------
Strings == {"hello", "world"}

JStr(s) == [type |-> "str", val |-> s]
JNull == [type |-> "null", val |-> ""]
JList(items) == [type |-> "list", val |-> "", items |-> items]
JScalar(t) == [type |-> t, val |-> "", items |-> <<>>]

SeqsUpTo(S, n) == UNION {[1..k -> S] : k \in 0..n}

\* texts that are lists of strings, of every length 0..MaxLen
GoodTexts == {JList([i \in DOMAIN ts |-> JStr(ts[i])]) : ts \in SeqsUpTo(Strings, MaxLen)}

\* texts of the wrong shape: a bare string, a list holding a non-string
BadTexts == {JScalar("str"), JList(<<JStr("hello"), JNull>>)}

Body(has, texts) == [hasTexts |-> has, texts |-> texts]
MissingBody == Body(FALSE, JScalar("null"))

EmbedBodies == {Body(TRUE, t) : t \in GoodTexts \cup BadTexts} \cup {MissingBody}

HealthRequest == [route |-> "health", body |-> MissingBody]
EmbedRequest(b) == [route |-> "embed", body |-> b]
NoRequest == [route |-> "none", body |-> MissingBody]

\* ---- class Texts(BaseModel): texts: list[str] -----------------------------
IsStr(item) == item.type = "str"

TextsValid(body) ==
    /\ body.hasTexts
    /\ body.texts.type = "list"
    /\ \A i \in DOMAIN body.texts.items : IsStr(body.texts.items[i])

\* the validated field payload.texts: the strings, item by item
ParseTexts(body) == [i \in DOMAIN body.texts.items |-> body.texts.items[i].val]

\* ---- responses -------------------------------------------------------------
Response(code, status, name, has, emb) ==
    [code |-> code, status |-> status, model |-> name,
     hasEmbeddings |-> has, embeddings |-> emb]

NoResponse == Response(0, "", "", FALSE, <<>>)
ValidationError == Response(422, "", "", FALSE, <<>>)
InternalServerError == Response(500, "", "", FALSE, <<>>)

\* ---- the embedding model (sentence_transformers, behind model.encode) ------
Code(t) == IF t = "hello" THEN 1 ELSE 2

\* the vector of one text: fixed length Dim, determined by the text alone
Vec(t) == [j \in 1..Dim |-> 10 * Code(t) + j]

\* one row of the batch output; ndarray rows offer tolist, plain rows do not
Row(t, hasTolist) == [hasTolist |-> hasTolist, items |-> Vec(t)]

\* model.encode(texts, show_progress_bar=False): one row per text, in order
ModelEncode(m, texts, hasTolist) == [i \in DOMAIN texts |-> Row(texts[i], hasTolist)]

\* ---- embed's conversion "to plain lists" -----------------------------------
\* e.tolist(): the row's numbers as a plain list
tolist(e) == e.items

\* list(e): iterate the row, collecting its numbers
list(e) == [j \in 1..Len(e.items) |-> e.items[j]]

ToList_truncating(e) == SubSeq(tolist(e), 1, Len(e.items) - 1)

\* e.tolist() if hasattr(e, 'tolist') else list(e)
ToList(e) == IF e.hasTolist THEN tolist(e) ELSE list(e)

ConvertAll_dropping(embs) == [i \in 1..(Len(embs) - 1) |-> ToList(embs[i])]

ConvertAll_reversing(embs) == [i \in 1..Len(embs) |-> ToList(embs[Len(embs) + 1 - i])]

\* [... for e in embeddings]
ConvertAll(embs) == [i \in 1..Len(embs) |-> ToList(embs[i])]

\* {"embeddings": [...]}
EmbedResponse(embs) == Response(200, "", "", TRUE, ConvertAll(embs))

HealthResponse_tracking == 
    Response(200, IF \E i \in DOMAIN history : history[i] = "failed" THEN "degraded" ELSE "ok",
             MODEL_NAME, FALSE, <<>>)

\* {"status": "ok", "model": MODEL_NAME}
HealthResponse == Response(200, "ok", MODEL_NAME, FALSE, <<>>)

\* ---- state after the module has been imported -------------------------------
Init ==
    /\ MODEL_NAME = "all-MiniLM-L6-v2"
    /\ model = [name |-> "all-MiniLM-L6-v2", loaded |-> TRUE]
    /\ pc = [s \in Slots |-> "idle"]
    /\ req = [s \in Slots |-> NoRequest]
    /\ payload = [s \in Slots |-> <<>>]
    /\ resp = [s \in Slots |-> NoResponse]
    /\ calls = [s \in Slots |-> <<>>]
    /\ raised = [s \in Slots |-> FALSE]
    /\ history = <<>>

InFlight == {s \in Slots : pc[s] # "idle"}
Received == Len(history) + Cardinality(InFlight)

\* ---- the framework: routing and validation ----------------------------------
\* GET /health is routed to health()
RecvHealth(s) ==
    /\ pc[s] = "idle"
    /\ Received < MaxRequests
    /\ pc' = [pc EXCEPT ![s] = "health"]
    /\ req' = [req EXCEPT ![s] = HealthRequest]
    /\ UNCHANGED <<MODEL_NAME, model, payload, resp, calls, raised, history>>

Validate_defaulting(body) == TextsValid(body) \/ ~body.hasTexts

Validate_nonempty(body) == TextsValid(body) /\ Len(body.texts.items) > 0

\* the body is accepted as a Texts
Validate(body) == TextsValid(body)

\* POST /embed: the body is validated against Texts; a body that fails is
\* answered 422 by the framework and embed() is not entered
RecvEmbed(s) ==
    /\ pc[s] = "idle"
    /\ Received < MaxRequests
    /\ \E b \in EmbedBodies :
        /\ req' = [req EXCEPT ![s] = EmbedRequest(b)]
        /\ IF Validate(b)
           THEN /\ pc' = [pc EXCEPT ![s] = "embed"]
                /\ payload' = [payload EXCEPT ![s] = ParseTexts(b)]
                /\ UNCHANGED resp
           ELSE /\ pc' = [pc EXCEPT ![s] = "done"]
                /\ resp' = [resp EXCEPT ![s] = ValidationError]
                /\ UNCHANGED payload
    /\ UNCHANGED <<MODEL_NAME, model, calls, raised, history>>

\* ---- health() -----------------------------------------------------------------
health_rebinding(s) ==
    /\ pc[s] = "health"
    /\ MODEL_NAME' = "reloaded"
    /\ resp' = [resp EXCEPT ![s] = HealthResponse]
    /\ pc' = [pc EXCEPT ![s] = "done"]
    /\ UNCHANGED <<model, req, payload, calls, raised, history>>

health(s) ==
    /\ pc[s] = "health"
    /\ resp' = [resp EXCEPT ![s] = HealthResponse]
    /\ pc' = [pc EXCEPT ![s] = "done"]
    /\ UNCHANGED <<MODEL_NAME, model, req, payload, calls, raised, history>>

\* ---- embed(payload) -------------------------------------------------------------
EncodeArg_shared(s) ==
    LET others == {t \in Slots : t # s /\ pc[t] \in {"embed", "encoding"}}
    IN  IF others # {} THEN payload[CHOOSE t \in others : TRUE] ELSE payload[s]

EncodeArg_chunked(s) == IF Len(payload[s]) > 1 THEN <<payload[s][1]>> ELSE payload[s]

\* the first argument of model.encode: payload.texts
EncodeArg(s) == payload[s]

\* embed() enters model.encode(payload.texts, show_progress_bar=False)
embed_encode(s) ==
    /\ pc[s] = "embed"
    /\ calls' = [calls EXCEPT ![s] = Append(@, EncodeArg(s))]
    /\ pc' = [pc EXCEPT ![s] = "encoding"]
    /\ UNCHANGED <<MODEL_NAME, model, req, payload, resp, raised, history>>

embed_unwind_partial(s) ==
    /\ pc' = [pc EXCEPT ![s] = "done"]
    /\ resp' = [resp EXCEPT ![s] =
                  EmbedResponse(ModelEncode(model, SubSeq(payload[s], 1, Len(payload[s]) - 1), TRUE))]

\* embed has no try/except: an exception of model.encode leaves the handler
\* and the framework answers 500
embed_unwind(s) ==
    /\ pc' = [pc EXCEPT ![s] = "done"]
    /\ resp' = [resp EXCEPT ![s] = InternalServerError]

\* model.encode raises
encode_raise(s) ==
    /\ pc[s] = "encoding"
    /\ raised' = [raised EXCEPT ![s] = TRUE]
    /\ embed_unwind(s)
    /\ UNCHANGED <<MODEL_NAME, model, req, payload, calls, history>>

\* model.encode returns its batch output, embed binds it to `embeddings`,
\* converts it and returns {"embeddings": [...]}
embed_return(s) ==
    /\ pc[s] = "encoding"
    /\ \E hasTolist \in BOOLEAN :
        LET embeddings == ModelEncode(model, calls[s][Len(calls[s])], hasTolist)
        IN  resp' = [resp EXCEPT ![s] = EmbedResponse(embeddings)]
    /\ pc' = [pc EXCEPT ![s] = "done"]
    /\ UNCHANGED <<MODEL_NAME, model, req, payload, calls, raised, history>>

\* ---- the framework sends the response; the handler's locals are gone ------------
Outcome(s) ==
    IF req[s].route = "health" THEN "health"
    ELSE IF resp[s].code = 422 THEN "rejected"
    ELSE IF resp[s].code = 500 THEN "failed"
    ELSE "ok"

Respond(s) ==
    /\ pc[s] = "done"
    /\ history' = Append(history, Outcome(s))
    /\ pc' = [pc EXCEPT ![s] = "idle"]
    /\ req' = [req EXCEPT ![s] = NoRequest]
    /\ payload' = [payload EXCEPT ![s] = <<>>]
    /\ resp' = [resp EXCEPT ![s] = NoResponse]
    /\ calls' = [calls EXCEPT ![s] = <<>>]
    /\ raised' = [raised EXCEPT ![s] = FALSE]
    /\ UNCHANGED <<MODEL_NAME, model>>

Next ==
    \E s \in Slots :
        \/ RecvHealth(s)
        \/ RecvEmbed(s)
        \/ health(s)
        \/ embed_encode(s)
        \/ encode_raise(s)
        \/ embed_return(s)
        \/ Respond(s)

Spec == Init /\ [][Next]_vars

\* ---- helpers of the properties ----------------------------------------------------
Done(s) == pc[s] = "done"
IsEmbed(s) == req[s].route = "embed"
ValidEmbed(s) == IsEmbed(s) /\ TextsValid(req[s].body)
InvalidEmbed(s) == IsEmbed(s) /\ ~TextsValid(req[s].body)
ReqTexts(s) == req[s].body.texts.items
Succeeded(s) == Done(s) /\ ValidEmbed(s) /\ resp[s].code = 200

\* the plain vectors a request's texts stand for, text by text
Expected(s) == [i \in DOMAIN ReqTexts(s) |-> Vec(ReqTexts(s)[i].val)]
Seen(kind) == \E i \in DOMAIN history : history[i] = kind
EmptyBody == Body(TRUE, JList(<<>>))
TwoTexts(a, b) == Body(TRUE, JList(<<JStr(a), JStr(b)>>))

\* ---- properties ------------------------------------------------------------------

\* C1: a valid embed request whose model call did not raise is answered 200
\* with an `embeddings` list of exactly as many entries as the request's
\* `texts`, duplicates included.
C1_LengthPreserved ==
    \A s \in Slots :
        (Done(s) /\ ValidEmbed(s) /\ ~raised[s]) =>
            /\ resp[s].code = 200
            /\ resp[s].hasEmbeddings
            /\ Len(resp[s].embeddings) = Len(ReqTexts(s))

C1_Witness ==
    \E s \in Slots :
        /\ Succeeded(s)
        /\ req[s].body = TwoTexts("hello", "hello")
        /\ Len(resp[s].embeddings) = 2

\* C2: in a successful embed response the entry at index i is the plain-list
\* form of the model's vector for texts[i]; the conversion never reorders.
C2_OrderPreserved ==
    \A s \in Slots :
        Succeeded(s) =>
            \A i \in DOMAIN ReqTexts(s) :
                /\ i \in DOMAIN resp[s].embeddings
                /\ resp[s].embeddings[i] = Vec(ReqTexts(s)[i].val)

C2_Witness ==
    \E s \in Slots :
        /\ Succeeded(s)
        /\ req[s].body = TwoTexts("hello", "world")
        /\ resp[s].embeddings[1] = Vec("hello")
        /\ resp[s].embeddings[2] = Vec("world")
        /\ Vec("hello") # Vec("world")

\* C3: every inner vector of a successful embed response has the model's
\* embedding dimensionality; neither tolist nor the list fallback changes it.
C3_FixedDimension ==
    \A s \in Slots :
        (Done(s) /\ ValidEmbed(s) /\ ~raised[s]) =>
            \A i \in DOMAIN resp[s].embeddings : Len(resp[s].embeddings[i]) = Dim

C3_Witness ==
    \E s \in Slots :
        /\ Succeeded(s)
        /\ Len(resp[s].embeddings) = 2
        /\ Len(resp[s].embeddings[1]) = Dim
        /\ Len(resp[s].embeddings[2]) = Dim

\* C4: a request with texts = [] passes validation (it is never answered 422
\* and reaches the model call with an empty batch), and unless the model call
\* itself raises it is answered 200 with embeddings = [].
C4_EmptyTextsAccepted ==
    \A s \in Slots :
        (IsEmbed(s) /\ req[s].body = EmptyBody) =>
            /\ resp[s].code # 422
            /\ pc[s] \in {"embed", "encoding", "done"}
            /\ (Done(s) /\ ~raised[s]) => resp[s] = Response(200, "", "", TRUE, <<>>)

C4_Witness ==
    \E s \in Slots :
        /\ Done(s)
        /\ req[s] = EmbedRequest(EmptyBody)
        /\ calls[s] = << <<>> >>
        /\ resp[s] = Response(200, "", "", TRUE, <<>>)

\* C5: an embed request whose body lacks `texts`, or whose `texts` is not a
\* list of strings, is answered 422 without embeddings, model.encode is never
\* called for it, and the slot can go on to answer the next request.
C5_InvalidRejectedBeforeModel ==
    \A s \in Slots :
        InvalidEmbed(s) =>
            /\ Done(s)
            /\ resp[s].code = 422
            /\ ~resp[s].hasEmbeddings
            /\ calls[s] = <<>>
            /\ ~raised[s]
            /\ ENABLED Respond(s)

C5_Witness ==
    \E s \in Slots :
        /\ Done(s)
        /\ req[s] = EmbedRequest(MissingBody)
        /\ resp[s] = ValidationError
        /\ \E i, j \in DOMAIN history :
            i < j /\ history[i] = "rejected" /\ history[j] = "ok"

\* C6: whatever requests were answered before, a health check is answered 200
\* with status "ok" and the model name fixed at start.
C6_HealthIndependentOfHistory ==
    \A s \in Slots :
        (Done(s) /\ req[s].route = "health") =>
            resp[s] = Response(200, "ok", "all-MiniLM-L6-v2", FALSE, <<>>)

C6_Witness ==
    \E s \in Slots :
        /\ Done(s)
        /\ req[s].route = "health"
        /\ resp[s].status = "ok"
        /\ Seen("failed")
        /\ Seen("rejected") \/ Seen("ok")

\* C7: when the model call of an embed request raises, the request ends with
\* the 500 response, which has no `embeddings`, and model.encode was called
\* exactly once for it.
C7_AllOrNothing ==
    \A s \in Slots :
        raised[s] =>
            /\ Done(s)
            /\ resp[s].code = 500
            /\ ~resp[s].hasEmbeddings
            /\ resp[s].embeddings = <<>>
            /\ Len(calls[s]) = 1

C7_Witness ==
    \E s \in Slots :
        /\ raised[s]
        /\ Done(s)
        /\ Len(payload[s]) = 2
        /\ resp[s] = InternalServerError

\* C8: a valid embed request makes exactly one model.encode call, whose
\* argument is the request's whole texts list in order; a health check
\* makes none.
C8_OneWholeBatchCall ==
    \A s \in Slots :
        /\ ValidEmbed(s) =>
            /\ pc[s] = "embed" => calls[s] = <<>>
            /\ pc[s] \in {"encoding", "done"} => calls[s] = <<ParseTexts(req[s].body)>>
        /\ req[s].route = "health" => calls[s] = <<>>

C8_Witness ==
    \E s \in Slots :
        /\ Done(s)
        /\ req[s].body = TwoTexts("world", "hello")
        /\ calls[s] = << <<"world", "hello">> >>

\* C9: no step of any handler changes MODEL_NAME or the model handle; they
\* keep the values given at import, and two successful answers to the same
\* embed request are equal, both being the vectors of that request's texts.
C9_HandlersLeaveGlobals ==
    /\ [][MODEL_NAME' = MODEL_NAME /\ model' = model]_vars
    /\ [](/\ MODEL_NAME = "all-MiniLM-L6-v2"
          /\ model.name = MODEL_NAME
          /\ \A s, t \in Slots :
                (Succeeded(s) /\ Succeeded(t) /\ req[s] = req[t]) => resp[s] = resp[t])

C9_Witness ==
    \E s \in Slots :
        /\ Succeeded(s)
        /\ Len(payload[s]) > 0
        /\ Seen("health")
        /\ Seen("failed")
        /\ MODEL_NAME = "all-MiniLM-L6-v2"

\* C10: with several handlers in flight, the model call of each embed request
\* carries that request's own texts, a successful response holds the vectors
\* of its own texts only, and the shared globals are as they were at import.
C10_NoCrossTalk ==
    /\ \A s \in Slots :
        /\ (ValidEmbed(s) /\ pc[s] = "encoding") =>
                calls[s][Len(calls[s])] = ParseTexts(req[s].body)
        /\ Succeeded(s) =>
            /\ resp[s].embeddings = Expected(s)
            /\ Len(resp[s].embeddings) = Len(ReqTexts(s))
    /\ MODEL_NAME = "all-MiniLM-L6-v2"
    /\ model = [name |-> "all-MiniLM-L6-v2", loaded |-> TRUE]

C10_Witness ==
    \E s, t \in Slots :
        /\ s # t
        /\ Succeeded(s)
        /\ pc[t] = "encoding"
        /\ Len(payload[s]) = 2
        /\ Len(payload[t]) = 1
        /\ payload[t][1] # payload[s][1]

====
